---- MODULE Spec2Model ----
(***************************************************************************)
(* The asynchronous batch job lifecycle of the admission service           *)
(* (src/src/service_batch.py): the module-level job store `jobs` guarded   *)
(* by `jobs_lock`, the background thread process_batch_job started by      *)
(* /batch/submit, the two polling routes, and the authentication gate in   *)
(* front of them (src/src/auth/jwt_auth.py).                               *)
(*                                                                         *)
(* Every `with jobs_lock:` block is two steps: the acquisition, and the    *)
(* body together with the release.  Code that touches no shared state      *)
(* (middleware, validation, the predictor call) is one step.               *)
(***************************************************************************)
EXTENDS Integers, Sequences, FiniteSets, TLC

\* ------------------------------------------------------------------ bounds
\* Number of identifiers uuid4 hands out before submissions stop.
MaxJobs == 2
\* Number of clients, each with at most one request in flight.
NumClients == 2

JobIds  == 1..MaxJobs
Clients == 1..NumClients

\* ------------------------------------------------------- input_model.py
\* BatchAdmissionInput.validate_batch_size: the largest accepted batch.
MAX_BATCH_SIZE == 1000

FieldNames ==
    {"gre_score", "toefl_score", "university_rating", "sop", "lor", "cgpa", "research"}

\* Field(..., ge=lo, le=hi) of AdmissionInput, per field.
FieldBounds ==
    [gre_score         |-> <<0, 340>>,
     toefl_score       |-> <<0, 120>>,
     university_rating |-> <<1, 5>>,
     sop               |-> <<1, 5>>,
     lor               |-> <<1, 5>>,
     cgpa              |-> <<0, 10>>,
     research          |-> <<0, 1>>]

\* AdmissionInput(**inp): every field is required (Field(...)), must be a
\* number, and must lie within its bounds.  inp is a dict: a function from
\* the keys it has to their values.
AdmissionInputOk(inp) ==
    \A f \in FieldNames :
        /\ f \in DOMAIN inp
        /\ inp[f] \in Int
        /\ FieldBounds[f][1] <= inp[f]
        /\ inp[f] <= FieldBounds[f][2]

\* The size test written with >= : a batch of exactly the maximum is refused.
BatchAdmissionInputOffByOne(inputs) ==
    /\ Len(inputs) >= 1
    /\ ~(Len(inputs) >= MAX_BATCH_SIZE)

\* min_length=1 left out of the Field.
BatchAdmissionInputNoMinLength(inputs) == ~(Len(inputs) > MAX_BATCH_SIZE)

\* BatchAdmissionInput(inputs=...): min_length=1 and validate_batch_size.
BatchAdmissionInputOk(inputs) ==
    /\ Len(inputs) >= 1
    /\ ~(Len(inputs) > MAX_BATCH_SIZE)

\* AdmissionOutput(chance_of_admit=p): ge=0, le=1.  Predictions are kept in
\* units of 1/10000.
AdmissionOutputOk(p) == 0 <= p /\ p <= 10000

\* ------------------------------------------------------------ sample data
Applicant(gre, toefl, rating, sop, lor, cgpa, research) ==
    [gre_score |-> gre, toefl_score |-> toefl, university_rating |-> rating,
     sop |-> sop, lor |-> lor, cgpa |-> cgpa, research |-> research]

InStrong  == Applicant(337, 118, 4, 4, 4, 9, 1)
InAverage == Applicant(320, 110, 3, 3, 3, 8, 0)
\* Within every field bound, but the fitted line predicts more than 1 for it.
InTop     == Applicant(340, 120, 5, 5, 5, 10, 1)
\* gre_score above its bound.
InBadGre  == Applicant(341, 118, 4, 4, 4, 9, 1)
\* A dict without the research key.
InNoResearch == [f \in FieldNames \ {"research"} |-> InStrong[f]]
\* cgpa on a scale of 100: far above its bound.
InOffScale == Applicant(340, 120, 5, 5, 5, 100, 1)

\* The request bodies the clients send to /predict.
PredictInputs == {InStrong, InTop, InBadGre, InOffScale, InNoResearch}

\* The request bodies the clients send to /batch/submit.
SampleBatches ==
    { <<>>,
      <<InStrong, InAverage>>,
      <<InAverage, InTop>>,
      <<InStrong, InBadGre>> }

\* A batch of n copies of one input.
Repeat(x, n) == [i \in 1..n |-> x]

\* Request bodies at the edges of the accepted sizes: empty, one input, the
\* maximum, one more than the maximum; and two with an input that is not
\* well-formed: one out of bounds after a good one, one that lacks a field.
BoundaryBatches ==
    { <<>>,
      Repeat(InStrong, 1),
      Repeat(InAverage, MAX_BATCH_SIZE),
      Repeat(InAverage, MAX_BATCH_SIZE + 1),
      <<InStrong, InBadGre>>,
      <<InNoResearch>> }

\* --------------------------------------------------------------- predictor
\* LinearRegression.predict for one row: an affine function of the seven
\* features (units of 1/10000).  The coefficients are those of a
\* least-squares fit of the admission data; the repository stores the
\* fitted model as an artifact, not as source.
LinearRegressionPredict(x) ==
    19 * x.gre_score + 28 * x.toefl_score + 60 * x.university_rating
      + 16 * x.sop + 170 * x.lor + 1180 * x.cgpa + 240 * x.research - 12800

\* The N x 7 feature matrix built from the inputs, row i from input i.
Features(inputs) == [i \in 1..Len(inputs) |-> inputs[i]]

\* batch_model.predict(features): one prediction per row, in row order.
batch_model_predict(features) ==
    [i \in 1..Len(features) |-> LinearRegressionPredict(features[i])]

\* single_model.predict(features): the same fitted model, loaded a second
\* time (lines 97-98).
single_model_predict(features) ==
    [i \in 1..Len(features) |-> LinearRegressionPredict(features[i])]

\* Messages of the exceptions the predictor call may raise.
PredictorErrors == {"predictor error"}

\* str(e) of the pydantic error raised by AdmissionOutput.
OutputValidationError == "validation error for AdmissionOutput"

\* ------------------------------------------------------------- jwt_auth.py
\* The defaults of lines 10-14.
JWT_SECRET == "default_secret"
\* JWT_EXPIRATION_MINUTES
JWT_EXPIRATION == 30
API_USERNAME == "admin"
API_PASSWORD == "secret123"

\* timedelta(minutes=m), in seconds, the unit of the clock and of the exp
\* and iat claims.
timedelta_minutes(m) == 60 * m

\* Paths are sequences of characters, so that startswith is a prefix test.
PUBLIC_PATHS ==
    { <<"/", "l", "o", "g", "i", "n">>,
      <<"/", "h", "e", "a", "l", "t", "h", "z">>,
      <<"/", "d", "o", "c", "s">>,
      <<"/", "o", "p", "e", "n", "a", "p", "i", ".", "j", "s", "o", "n">>,
      <<"/", "m", "e", "t", "r", "i", "c", "s">>,
      <<"/", "r", "e", "a", "d", "y", "z">>,
      <<"/", "l", "i", "v", "e", "z">> }

\* The whole path compared instead of its beginning.
StartsWithWholePath(s, p) == s = p

\* str.startswith
StartsWith(s, p) == Len(p) <= Len(s) /\ SubSeq(s, 1, Len(p)) = p

PATH_LOGIN   == <<"/", "l", "o", "g", "i", "n">>
PATH_PREDICT == <<"/", "p", "r", "e", "d", "i", "c", "t">>
PATH_SUBMIT  == <<"/", "b", "a", "t", "c", "h", "/", "s", "u", "b", "m", "i", "t">>
PATH_STATUS  == <<"/", "b", "a", "t", "c", "h", "/", "s", "t", "a", "t", "u", "s", "/">>
PATH_RESULTS == <<"/", "b", "a", "t", "c", "h", "/", "r", "e", "s", "u", "l", "t", "s", "/">>

\* A header value is kept as the list of its words, the pieces between
\* single spaces: exactly what value.split(" ") returns, and the value is
\* " ".join of them.  A word is a piece of text or an encoded token.
NoClaims == [sub |-> "", exp |-> 0, iat |-> 0]
Word(text) == [jwt |-> FALSE, text |-> text, claims |-> NoClaims, key |-> ""]

\* jwt.encode(payload, key): a string without spaces, hence one word, from
\* which jwt.decode recovers the payload if it is given the same key.
jwt_encode(payload, key) == [jwt |-> TRUE, text |-> "", claims |-> payload, key |-> key]

\* request.headers.get("Authorization"): None, or a string.
NoHeader == [present |-> FALSE, words |-> <<>>]
HeaderOf(words) == [present |-> TRUE, words |-> words]
BearerOf(tkn) == HeaderOf(<<Word("Bearer"), tkn>>)

\* Tokens made outside the service, as the tests make them.
ClaimsOf(sub, iat, exp) == [sub |-> sub, exp |-> exp, iat |-> iat]
ValidToken   == jwt_encode(ClaimsOf(API_USERNAME, 0, timedelta_minutes(JWT_EXPIRATION)), JWT_SECRET)
ExpiredToken == jwt_encode(ClaimsOf(API_USERNAME, 0, 0), JWT_SECRET)
ForgedToken  == jwt_encode(ClaimsOf(API_USERNAME, 0, timedelta_minutes(JWT_EXPIRATION)), "another secret")
StrangerToken == jwt_encode(ClaimsOf("nobody", 0, timedelta_minutes(JWT_EXPIRATION)), JWT_SECRET)

EmptyHeader   == HeaderOf(<<Word("")>>)
BasicHeader   == HeaderOf(<<Word("Basic"), Word("YWRtaW46c2VjcmV0MTIz")>>)
\* "bearer <token>", "Bearer" and "Bearer  <token>" (two spaces).
LowerCaseBearer == HeaderOf(<<Word("bearer"), ValidToken>>)
BareBearer      == HeaderOf(<<Word("Bearer")>>)
TwoSpaceBearer  == HeaderOf(<<Word("Bearer"), Word(""), ValidToken>>)
GarbageBearer == BearerOf(Word("invalid_token"))
ForgedBearer  == BearerOf(ForgedToken)
ExpiredBearer == BearerOf(ExpiredToken)
ValidBearer   == BearerOf(ValidToken)
StrangerBearer == BearerOf(StrangerToken)

AllHeaders ==
    { NoHeader, EmptyHeader, BasicHeader, LowerCaseBearer, BareBearer, TwoSpaceBearer,
      GarbageBearer, ForgedBearer, ExpiredBearer, ValidBearer, StrangerBearer }

\* The header the clients of the job lifecycle send: they have logged in.
Headers == {ValidBearer}

\* The signature is checked and the exp claim is not.
verify_tokenNoExpiry(tkn, now) ==
    IF ~tkn.jwt THEN "InvalidTokenError"
    ELSE IF tkn.key # JWT_SECRET THEN "InvalidTokenError"
    ELSE "ok"

\* verify_token = jwt.decode(token, JWT_SECRET) at time now: the token is
\* parsed, its signature is checked, then its exp claim (expired when
\* exp <= now).  The result is the exception class raised, or "ok".
verify_token(tkn, now) ==
    IF ~tkn.jwt THEN "InvalidTokenError"
    ELSE IF tkn.key # JWT_SECRET THEN "InvalidTokenError"
    ELSE IF tkn.claims.exp <= now THEN "ExpiredSignatureError"
    ELSE "ok"

\* `not auth_header or not auth_header.startswith("Bearer ")`: the value
\* starts with "Bearer " when its first word is Bearer and a space follows.
MissingOrInvalid(auth_header) ==
    \/ ~auth_header.present
    \/ auth_header.words = <<Word("")>>
    \/ ~(Len(auth_header.words) >= 2 /\ auth_header.words[1] = Word("Bearer"))

\* What became of a request in the middleware: whether verify_token was
\* called, and "call_next" or the error of the 401 response.
Passed(verified) == [verified |-> verified, outcome |-> "call_next"]
\* The error is noted and the request handed on all the same.
DeniedCallsNext(verified, error) == [verified |-> verified, outcome |-> "call_next"]

Denied(verified, error) == [verified |-> verified, outcome |-> error]

\* The token is verified whatever the header looks like.
dispatchVerifyFirst(path, auth_header, now) ==
    IF \E p \in PUBLIC_PATHS : StartsWith(path, p) THEN Passed(FALSE)
    ELSE IF MissingOrInvalid(auth_header) THEN Denied(TRUE, "Missing or invalid token")
    ELSE IF verify_token(auth_header.words[2], now) = "ExpiredSignatureError"
         THEN Denied(TRUE, "Token expired")
    ELSE IF verify_token(auth_header.words[2], now) = "InvalidTokenError"
         THEN Denied(TRUE, "Invalid token")
    ELSE Passed(TRUE)

\* JWTAuthMiddleware.dispatch at time now; the token is
\* auth_header.split(" ")[1].
dispatch(path, auth_header, now) ==
    IF \E p \in PUBLIC_PATHS : StartsWith(path, p) THEN Passed(FALSE)
    ELSE IF MissingOrInvalid(auth_header) THEN Denied(FALSE, "Missing or invalid token")
    ELSE IF verify_token(auth_header.words[2], now) = "ExpiredSignatureError"
         THEN Denied(TRUE, "Token expired")
    ELSE IF verify_token(auth_header.words[2], now) = "InvalidTokenError"
         THEN Denied(TRUE, "Invalid token")
    ELSE Passed(TRUE)

\* credentials.credentials of the HTTPBearer dependency: all that follows
\* the first space of the header value.
Credentials(auth_header) ==
    IF Len(auth_header.words) = 2 THEN auth_header.words[2]
    ELSE Word("several words")

\* get_current_user, the dependency of the two GET routes: every exception
\* of verify_token becomes one 401.
get_current_user(credentials, now) ==
    IF verify_token(credentials, now) = "ok" THEN "ok" ELSE "Invalid or expired token"

\* Only the password is compared.
validate_credentialsPasswordOnly(username, password) == password = API_PASSWORD

\* `or` in place of `and`.
validate_credentialsEither(username, password) ==
    username = API_USERNAME \/ password = API_PASSWORD

\* validate_credentials
validate_credentials(username, password) ==
    username = API_USERNAME /\ password = API_PASSWORD

\* ---------------------------------------------------------------- responses
\* What a client holds of an HTTP response: the route that answered, the
\* status code and the fields of the body (a field the body lacks keeps its
\* default).
Response(op, code, job_id, status, results, total, error) ==
    [op |-> op, code |-> code, job_id |-> job_id, status |-> status,
     results |-> results, total |-> total, error |-> error]

NoResponse == Response("", 0, 0, "", <<>>, 0, "")

\* A client that asks for the status of the job its previous response was
\* about (the id a submit returned, or the id of its previous status poll)
\* keeps the route and the status of that response while the new request is
\* in flight, as the polling tests do (tests/test_endpoints.py, lines
\* 259-312).
NoPrev == [op |-> "", status |-> ""]

Remember(response, job_id) ==
    IF response.code = 200 /\ response.job_id = job_id
         /\ response.op \in {"submit", "status"}
    THEN [op |-> response.op, status |-> response.status]
    ELSE NoPrev

\* -------------------------------------------------------------------- state
VARIABLES
    jobs,       \* the dict `jobs`: job id -> job dict (key -> value)
    jobs_lock,  \* the owner of `jobs_lock`, or Free
    uuids,      \* the identifiers uuid4 has returned so far
    thread,     \* per job id, the background thread running process_batch_job
    handler,    \* per client, the request handler in flight
    sent,       \* per client, the body of its last request, if that was a
                \* /batch/submit (the inputs) or a /login (name and password)
    resp,       \* per client, the last response received
    clock,      \* datetime.now(timezone.utc), in seconds
    token,      \* per client, the token its last login returned, if any
    passage     \* per client, its last request's way through the middleware

vars == <<jobs, jobs_lock, uuids, thread, handler, sent, resp, clock, token, passage>>

Free == <<"free", 0>>
HandlerOf(c) == <<"handler", c>>
ThreadOf(j)  == <<"thread", j>>

\* d[k] = v on a Python dict.
DictSet(d, k, v) == [x \in DOMAIN d \cup {k} |-> IF x = k THEN v ELSE d[x]]

\* d.get(k, default)
DictGet(d, k, default) == IF k \in DOMAIN d THEN d[k] ELSE default

\* time.time(): the job timestamps are written and never read.
time_time == "now"

\* An identifier source that repeats itself.
uuid4Repeating(drawn) == CHOOSE id \in JobIds : \A other \in JobIds : id <= other

\* uuid.uuid4(): an identifier never returned before.  Identifiers are
\* opaque (never compared or ordered by the service), so the least unused
\* one stands for any.
uuid4(drawn) == CHOOSE id \in JobIds \ drawn : \A other \in JobIds \ drawn : id <= other

NoBody == [any |-> FALSE, inputs |-> <<>>]
Body(inputs) == [any |-> TRUE, inputs |-> inputs]

Idle == [op |-> "idle", pc |-> "", job_id |-> 0, inputs |-> <<>>, prev |-> NoPrev]
\* raised: an exception was raised in the try block; exc is its str(e).
NoThread ==
    [pc |-> "unstarted", inputs |-> <<>>, results |-> <<>>, raised |-> FALSE, exc |-> ""]

\* No token: the client has not logged in, or its last login failed.
NoToken == Word("")

\* The request of a client as the middleware saw it at time now, and what
\* the middleware did with it.
Passage(path, auth_header, now) ==
    LET through == dispatch(path, auth_header, now)
    IN  [path |-> path, header |-> auth_header, now |-> now,
         verified |-> through.verified, outcome |-> through.outcome]

NoPassage ==
    [path |-> <<>>, header |-> NoHeader, now |-> 0, verified |-> FALSE, outcome |-> ""]

Init ==
    /\ jobs = <<>>
    /\ jobs_lock = Free
    /\ uuids = {}
    /\ thread = [j \in JobIds |-> NoThread]
    /\ handler = [c \in Clients |-> Idle]
    /\ sent = [c \in Clients |-> NoBody]
    /\ resp = [c \in Clients |-> NoResponse]
    /\ clock = 0
    /\ token = [c \in Clients |-> NoToken]
    /\ passage = [c \in Clients |-> NoPassage]

\* ------------------------------------------------- AdmissionService.batch_submit
\* The conversion stopped after the first dict: the rest of the batch is
\* taken on unchecked.
ValidateBatchFirstOnly(inputs) ==
    IF Len(inputs) >= 1 /\ ~AdmissionInputOk(inputs[1])
        THEN "validation error for AdmissionInput"
    ELSE IF ~BatchAdmissionInputOk(inputs)
        THEN "validation error for BatchAdmissionInput"
    ELSE "ok"

\* Lines 123-128: "ok", or str(e) of the validation error.  Every dict is
\* converted before the batch is built.
ValidateBatch(inputs) ==
    IF \E i \in 1..Len(inputs) : ~AdmissionInputOk(inputs[i])
        THEN "validation error for AdmissionInput"
    ELSE IF ~BatchAdmissionInputOk(inputs)
        THEN "validation error for BatchAdmissionInput"
    ELSE "ok"

\* The initial status spelled differently from the one the routes expect.
NewJobQueued(inputs) ==
    [status |-> "queued", results |-> <<>>, created_at |-> time_time, inputs |-> inputs]

\* Lines 135-140: the dict stored for a new job.
NewJob(inputs) ==
    [status |-> "pending", results |-> <<>>, created_at |-> time_time, inputs |-> inputs]

\* The request passes the middleware, is validated, and draws its job id
\* (lines 123-131); a request that fails is answered at once.
SubmitRequest(c, auth_header, inputs) ==
    /\ handler[c].op = "idle"
    /\ sent' = [sent EXCEPT ![c] = Body(inputs)]
    /\ passage' = [passage EXCEPT ![c] = Passage(PATH_SUBMIT, auth_header, clock)]
    /\ LET gate == dispatch(PATH_SUBMIT, auth_header, clock).outcome
           valid == ValidateBatch(inputs)
       IN  IF gate # "call_next"
             THEN /\ resp' = [resp EXCEPT ![c] =
                          Response("submit", 401, 0, "", <<>>, 0, gate)]
                  /\ UNCHANGED <<handler, uuids>>
           ELSE IF valid # "ok"
             THEN /\ resp' = [resp EXCEPT ![c] =
                          Response("submit", 400, 0, "", <<>>, 0, valid)]
                  /\ UNCHANGED <<handler, uuids>>
           ELSE /\ uuids # JobIds
                /\ handler' = [handler EXCEPT ![c] =
                       [op |-> "submit", pc |-> "lock", job_id |-> uuid4(uuids),
                        inputs |-> inputs, prev |-> NoPrev]]
                /\ uuids' = uuids \cup {uuid4(uuids)}
                /\ resp' = [resp EXCEPT ![c] = NoResponse]
    /\ UNCHANGED <<jobs, jobs_lock, thread, clock, token>>

\* `with jobs_lock:` entered by a request handler (lines 134, 160, 174).
HandlerAcquire(c, op) ==
    /\ handler[c].op = op
    /\ handler[c].pc = "lock"
    /\ jobs_lock = Free
    /\ jobs_lock' = HandlerOf(c)
    /\ handler' = [handler EXCEPT ![c].pc = "locked"]
    /\ UNCHANGED <<jobs, uuids, thread, sent, resp, clock, token, passage>>

SubmitAcquire(c) == HandlerAcquire(c, "submit")

\* Lines 135-140 and the end of the with block.
SubmitInsert(c) ==
    /\ handler[c].op = "submit"
    /\ handler[c].pc = "locked"
    /\ jobs_lock = HandlerOf(c)
    /\ jobs' = DictSet(jobs, handler[c].job_id, NewJob(handler[c].inputs))
    /\ jobs_lock' = Free
    /\ handler' = [handler EXCEPT ![c].pc = "spawn"]
    /\ UNCHANGED <<uuids, thread, sent, resp, clock, token, passage>>

\* The handler starts the thread and joins it before it returns.
SubmitStartJoins(c) ==
    /\ handler[c].op = "submit"
    /\ handler[c].pc = "spawn"
    /\ IF thread[handler[c].job_id].pc = "unstarted"
         THEN /\ thread' = [thread EXCEPT ![handler[c].job_id].pc = "start",
                                          ![handler[c].job_id].inputs = handler[c].inputs]
              /\ UNCHANGED <<handler, resp>>
         ELSE /\ thread[handler[c].job_id].pc = "exited"
              /\ resp' = [resp EXCEPT ![c] =
                     Response("submit", 200, handler[c].job_id, "pending", <<>>, 0, "")]
              /\ handler' = [handler EXCEPT ![c] = Idle]
              /\ UNCHANGED thread
    /\ UNCHANGED <<jobs, jobs_lock, uuids, sent, clock, token, passage>>

\* Lines 143-151: the thread is started and the handler returns.
SubmitStart(c) ==
    /\ handler[c].op = "submit"
    /\ handler[c].pc = "spawn"
    /\ thread' = [thread EXCEPT ![handler[c].job_id].pc = "start",
                                 ![handler[c].job_id].inputs = handler[c].inputs]
    /\ resp' = [resp EXCEPT ![c] =
           Response("submit", 200, handler[c].job_id, "pending", <<>>, 0, "")]
    /\ handler' = [handler EXCEPT ![c] = Idle]
    /\ UNCHANGED <<jobs, jobs_lock, uuids, sent, clock, token, passage>>

\* str(e) of the RuntimeError Thread.start() raises when the process cannot
\* get another thread.
ThreadStartError == "can't start new thread"

\* Line 145 when thread.start() raises: nothing in batch_submit catches it,
\* the framework answers 500, and the record inserted at lines 134-140
\* stays as it is.
SubmitStartFails(c) ==
    /\ handler[c].op = "submit"
    /\ handler[c].pc = "spawn"
    /\ resp' = [resp EXCEPT ![c] =
           Response("submit", 500, 0, "", <<>>, 0, ThreadStartError)]
    /\ handler' = [handler EXCEPT ![c] = Idle]
    /\ UNCHANGED <<jobs, jobs_lock, uuids, thread, sent, clock, token, passage>>

\* ------------------------------------------------------------ batch_status_get
\* The gate in front of a GET route: the middleware, then the dependency
\* get_current_user.  "ok", or the error of the 401 response.
\* The GET routes left open to everyone.
GetGateOpen(path, auth_header, now) == "ok"

GetGate(path, auth_header, now) ==
    IF dispatch(path, auth_header, now).outcome # "call_next"
        THEN dispatch(path, auth_header, now).outcome
    ELSE get_current_user(Credentials(auth_header), now)

GetRequest(c, op, path, auth_header, job_id) ==
    /\ handler[c].op = "idle"
    /\ sent' = [sent EXCEPT ![c] = NoBody]
    /\ passage' = [passage EXCEPT ![c] = Passage(path, auth_header, clock)]
    /\ IF GetGate(path, auth_header, clock) # "ok"
         THEN /\ resp' = [resp EXCEPT ![c] =
                      Response(op, 401, 0, "", <<>>, 0, GetGate(path, auth_header, clock))]
              /\ UNCHANGED handler
         ELSE /\ handler' = [handler EXCEPT ![c] =
                      [op |-> op, pc |-> "lock", job_id |-> job_id, inputs |-> <<>>,
                       prev |-> IF op = "status" THEN Remember(resp[c], job_id)
                                ELSE NoPrev]]
              /\ resp' = [resp EXCEPT ![c] = NoResponse]
    /\ UNCHANGED <<jobs, jobs_lock, uuids, thread, clock, token>>

StatusRequest(c, auth_header, job_id) ==
    GetRequest(c, "status", PATH_STATUS, auth_header, job_id)

StatusAcquire(c) == HandlerAcquire(c, "status")

\* A status route that reports a failed job as not found.
StatusResponseHidesFailed(job_id) ==
    IF job_id \notin DOMAIN jobs \/ jobs[job_id]["status"] = "failed"
        THEN Response("status", 404, 0, "", <<>>, 0, "Job not found")
    ELSE Response("status", 200, job_id, jobs[job_id]["status"], <<>>, 0, "")

\* Lines 161-168: the response of the status route.
StatusResponse(job_id) ==
    IF job_id \notin DOMAIN jobs
        THEN Response("status", 404, 0, "", <<>>, 0, "Job not found")
    ELSE Response("status", 200, job_id, jobs[job_id]["status"], <<>>, 0, "")

\* The lock taken with acquire() and given back with release() before the
\* return: an HTTPException raised in between leaves it taken.
HandlerReadNoRelease(c, op, response) ==
    /\ handler[c].op = op
    /\ handler[c].pc = "locked"
    /\ jobs_lock = HandlerOf(c)
    /\ resp' = [resp EXCEPT ![c] = response]
    /\ jobs_lock' = IF response.code \in {404, 500} THEN jobs_lock ELSE Free
    /\ handler' = [handler EXCEPT ![c] = Idle]
    /\ UNCHANGED <<jobs, uuids, thread, sent, clock, token, passage>>

\* The body of a GET route's with block, its end, and the return.
HandlerRead(c, op, response) ==
    /\ handler[c].op = op
    /\ handler[c].pc = "locked"
    /\ jobs_lock = HandlerOf(c)
    /\ resp' = [resp EXCEPT ![c] = response]
    /\ jobs_lock' = Free
    /\ handler' = [handler EXCEPT ![c] = Idle]
    /\ UNCHANGED <<jobs, uuids, thread, sent, clock, token, passage>>

StatusRead(c) == HandlerRead(c, "status", StatusResponse(handler[c].job_id))

\* ----------------------------------------------------------- batch_results_get
ResultsRequest(c, auth_header, job_id) ==
    GetRequest(c, "results", PATH_RESULTS, auth_header, job_id)

ResultsAcquire(c) == HandlerAcquire(c, "results")

\* Lines 185-191: AdmissionOutput.model_dump() of every stored result.
ModelDump(results) ==
    [i \in 1..Len(results) |-> [chance_of_admit |-> results[i].chance_of_admit]]

\* The 202 branch written for processing alone: a pending job falls through
\* to the last branch.
ResultsResponseProcessingOnly(job_id) ==
    IF job_id \notin DOMAIN jobs
        THEN Response("results", 404, 0, "", <<>>, 0, "Job not found")
    ELSE LET job == jobs[job_id]
             status == job["status"]
         IN  IF status = "completed"
               THEN Response("results", 200, job_id, status,
                             ModelDump(DictGet(job, "results", <<>>)),
                             Len(DictGet(job, "results", <<>>)), "")
             ELSE IF status = "processing"
               THEN Response("results", 202, job_id, status, <<>>, 0, "")
             ELSE IF status = "failed"
               THEN Response("results", 500, job_id, status, <<>>, 0,
                             DictGet(job, "error", "Unknown error"))
             ELSE Response("results", 500, 0, "", <<>>, 0, "Unknown status")

\* Lines 175-222: the response of the results route.
ResultsResponse(job_id) ==
    IF job_id \notin DOMAIN jobs
        THEN Response("results", 404, 0, "", <<>>, 0, "Job not found")
    ELSE LET job == jobs[job_id]
             status == job["status"]
         IN  IF status = "completed"
               THEN Response("results", 200, job_id, status,
                             ModelDump(DictGet(job, "results", <<>>)),
                             Len(DictGet(job, "results", <<>>)), "")
             ELSE IF status \in {"pending", "processing"}
               THEN Response("results", 202, job_id, status, <<>>, 0, "")
             ELSE IF status = "failed"
               THEN Response("results", 500, job_id, status, <<>>, 0,
                             DictGet(job, "error", "Unknown error"))
             ELSE Response("results", 500, 0, "", <<>>, 0, "Unknown status")

ResultsRead(c) == HandlerRead(c, "results", ResultsResponse(handler[c].job_id))

\* --------------------------------------------------------- AdmissionService.login
\* The request body of a login in flight (the middleware lets /login pass
\* whatever header it carries; the clients send none).  With the right
\* credentials create_token begins: the dict display of lines 19-23 is
\* evaluated in order, so the clock is read for exp first.
LoginRequest(c, username, password) ==
    /\ handler[c].op = "idle"
    /\ sent' = [sent EXCEPT ![c] = Body(<<username, password>>)]
    /\ passage' = [passage EXCEPT ![c] = Passage(PATH_LOGIN, NoHeader, clock)]
    /\ token' = [token EXCEPT ![c] = NoToken]
    /\ IF validate_credentials(username, password)
         THEN /\ handler' = [handler EXCEPT ![c] =
                      [op |-> "login", pc |-> "iat", job_id |-> 0, inputs |-> <<>>,
                       prev |-> NoPrev, sub |-> username,
                       exp |-> clock + timedelta_minutes(JWT_EXPIRATION)]]
              /\ resp' = [resp EXCEPT ![c] = NoResponse]
         ELSE /\ resp' = [resp EXCEPT ![c] =
                      Response("login", 401, 0, "", <<>>, 0, "Invalid credentials")]
              /\ UNCHANGED handler
    /\ UNCHANGED <<jobs, jobs_lock, uuids, thread, clock>>

\* Lines 22-24 of jwt_auth.py and the return of login: the clock is read
\* again for iat, the payload is encoded and the token returned.
LoginIssue(c) ==
    /\ handler[c].op = "login"
    /\ handler[c].pc = "iat"
    /\ token' = [token EXCEPT ![c] =
           jwt_encode(ClaimsOf(handler[c].sub, clock, handler[c].exp), JWT_SECRET)]
    /\ resp' = [resp EXCEPT ![c] = Response("login", 200, 0, "", <<>>, 0, "")]
    /\ handler' = [handler EXCEPT ![c] = Idle]
    /\ UNCHANGED <<jobs, jobs_lock, uuids, thread, sent, clock, passage>>

\* ------------------------------------------------------- AdmissionService.predict
\* The parameters of predict (lines 108-109): seven required numbers with
\* no Field bounds.  The framework binds the request body to them before it
\* calls predict, and answers 400 when one is lacking or is no number.
PredictParametersOk(x) ==
    \A f \in FieldNames : f \in DOMAIN x /\ x[f] \in Int

\* Line 117: the prediction is returned as the model gave it.
PredictOutput(p) == Response("predict", 200, 0, "", <<[chance_of_admit |-> p]>>, 0, "")

\* The request passes the middleware and its body is bound to the
\* parameters; a request that fails is answered at once.
PredictRequest(c, auth_header, x) ==
    /\ handler[c].op = "idle"
    /\ sent' = [sent EXCEPT ![c] = Body(<<x>>)]
    /\ passage' = [passage EXCEPT ![c] = Passage(PATH_PREDICT, auth_header, clock)]
    /\ LET gate == dispatch(PATH_PREDICT, auth_header, clock).outcome
       IN  IF gate # "call_next"
             THEN /\ resp' = [resp EXCEPT ![c] =
                          Response("predict", 401, 0, "", <<>>, 0, gate)]
                  /\ UNCHANGED handler
           ELSE IF ~PredictParametersOk(x)
             THEN /\ resp' = [resp EXCEPT ![c] =
                          Response("predict", 400, 0, "", <<>>, 0,
                                   "validation error for predict")]
                  /\ UNCHANGED handler
           ELSE /\ handler' = [handler EXCEPT ![c] =
                       [op |-> "predict", pc |-> "model", job_id |-> 0,
                        inputs |-> <<x>>, prev |-> NoPrev]]
                /\ resp' = [resp EXCEPT ![c] = NoResponse]
    /\ UNCHANGED <<jobs, jobs_lock, uuids, thread, clock, token>>

\* Lines 112-117: the one-row feature matrix goes to the single model and
\* the prediction is returned.
PredictReturn(c) ==
    /\ handler[c].op = "predict"
    /\ handler[c].pc = "model"
    /\ resp' = [resp EXCEPT ![c] =
           PredictOutput(single_model_predict(Features(handler[c].inputs))[1])]
    /\ handler' = [handler EXCEPT ![c] = Idle]
    /\ UNCHANGED <<jobs, jobs_lock, uuids, thread, sent, clock, token, passage>>

\* ------------------------------------------------------------------ other paths
\* Paths that are no route of the service: those the framework serves
\* itself, and paths that look like them.
OtherPaths ==
    { <<"/", "h", "e", "a", "l", "t", "h", "z">>,
      <<"/", "h", "e", "a", "l", "t", "h">>,
      <<"/", "l", "o", "g", "i", "n", "s">>,
      <<"/", "a", "/", "l", "o", "g", "i", "n">>,
      <<"/", "d", "o", "c", "s", "/", "x">>,
      <<"/">> }

\* A request to one of them: the middleware answers 401 or hands the request
\* on (call_next), and what answers then is the framework.
OtherRequest(c, path, auth_header) ==
    /\ handler[c].op = "idle"
    /\ sent' = [sent EXCEPT ![c] = NoBody]
    /\ passage' = [passage EXCEPT ![c] = Passage(path, auth_header, clock)]
    /\ LET gate == dispatch(path, auth_header, clock).outcome
       IN  resp' = [resp EXCEPT ![c] =
               IF gate # "call_next"
                 THEN Response("other", 401, 0, "", <<>>, 0, gate)
               ELSE Response("call_next", 0, 0, "", <<>>, 0, "")]
    /\ UNCHANGED <<jobs, jobs_lock, uuids, thread, handler, clock, token>>

\* ------------------------------------------------------------------------ time
\* The lifetime of a token, in seconds.
TTL == timedelta_minutes(JWT_EXPIRATION)

\* The instants the clock is looked at: the start, a second later, and the
\* seconds around the expiry of a token made at the start.
Instants == {0, 1, TTL - 1, TTL, TTL + 1}

\* Time passes.
Tick ==
    /\ \E later \in Instants : later > clock /\ clock' = later
    /\ UNCHANGED <<jobs, jobs_lock, uuids, thread, handler, sent, resp, token, passage>>

\* ------------------------------------------------------------ process_batch_job
\* `with jobs_lock:` entered by the thread (lines 46, 73, 80).
ThreadAcquire(j, at, then) ==
    /\ thread[j].pc = at
    /\ jobs_lock = Free
    /\ jobs_lock' = ThreadOf(j)
    /\ thread' = [thread EXCEPT ![j].pc = then]
    /\ UNCHANGED <<jobs, uuids, handler, sent, resp, clock, token, passage>>

\* The writes applied to every record of the store instead of the
\* thread's own.
ThreadWriteEveryRecord(j, at, then, job) ==
    /\ thread[j].pc = at
    /\ jobs_lock = ThreadOf(j)
    /\ jobs' = [k \in DOMAIN jobs |-> job]
    /\ jobs_lock' = Free
    /\ thread' = [thread EXCEPT ![j].pc = then]
    /\ UNCHANGED <<uuids, handler, sent, resp, clock, token, passage>>

\* One with block of the thread: the writes to the job dict and the release.
ThreadWrite(j, at, then, job) ==
    /\ thread[j].pc = at
    /\ jobs_lock = ThreadOf(j)
    /\ jobs' = [jobs EXCEPT ![j] = job]
    /\ jobs_lock' = Free
    /\ thread' = [thread EXCEPT ![j].pc = then]
    /\ UNCHANGED <<uuids, handler, sent, resp, clock, token, passage>>

\* Lines 46-47.
ProcessingAcquire(j) == ThreadAcquire(j, "start", "locked_processing")

\* Line 47 left out: the job stays pending until the final write.
MarkProcessingForgotten(job) == job

\* Line 47 with a status name the routes do not know.
MarkProcessingRunning(job) == DictSet(job, "status", "running")

MarkProcessing(job) == DictSet(job, "status", "processing")

\* The first with block stretched over the whole try body: the status is
\* written and the lock kept while the model predicts.
ProcessingWriteKeepsLock(j) ==
    /\ thread[j].pc = "locked_processing"
    /\ jobs_lock = ThreadOf(j)
    /\ jobs' = [jobs EXCEPT ![j] = MarkProcessing(jobs[j])]
    /\ thread' = [thread EXCEPT ![j].pc = "predict"]
    /\ UNCHANGED <<jobs_lock, uuids, handler, sent, resp, clock, token, passage>>

ProcessingWrite(j) ==
    ThreadWrite(j, "locked_processing", "predict", MarkProcessing(jobs[j]))

\* The outputs collected in reverse order.
ConvertPredictionsReversed(predictions) ==
    [i \in 1..Len(predictions) |->
        [chance_of_admit |-> predictions[Len(predictions) + 1 - i]]]

\* Lines 67-70: the outputs built from the predictions, in their order.
ConvertPredictions(predictions) ==
    [i \in 1..Len(predictions) |-> [chance_of_admit |-> predictions[i]]]

\* Lines 50-70 when the predictor returns: the features are built from the
\* thread's own `inputs` argument, the model predicts, and every prediction
\* is converted.  A prediction AdmissionOutput rejects raises.
Predict(j) ==
    /\ thread[j].pc = "predict"
    /\ LET predictions == batch_model_predict(Features(thread[j].inputs))
       IN  IF \E i \in 1..Len(predictions) : ~AdmissionOutputOk(predictions[i])
             THEN thread' = [thread EXCEPT ![j].pc = "except",
                                           ![j].raised = TRUE,
                                           ![j].exc = OutputValidationError]
             ELSE thread' = [thread EXCEPT ![j].pc = "store",
                                           ![j].results = ConvertPredictions(predictions)]
    /\ UNCHANGED <<jobs, jobs_lock, uuids, handler, sent, resp, clock, token, passage>>

\* Line 64 when the predictor raises.
PredictRaise(j, msg) ==
    /\ thread[j].pc = "predict"
    /\ thread' = [thread EXCEPT ![j].pc = "except", ![j].raised = TRUE, ![j].exc = msg]
    /\ UNCHANGED <<jobs, jobs_lock, uuids, handler, sent, resp, clock, token, passage>>

\* Lines 73-76.
CompletedAcquire(j) == ThreadAcquire(j, "store", "locked_completed")

\* Line 75 left out of the with block: the status is updated without its
\* payload.
MarkCompletedStatusOnly(job, results) ==
    DictSet(DictSet(job, "status", "completed"), "completed_at", time_time)

\* Lines 74-76.
MarkCompleted(job, results) ==
    DictSet(DictSet(DictSet(job, "status", "completed"),
                    "results", results),
            "completed_at", time_time)

CompletedWrite(j) ==
    ThreadWrite(j, "locked_completed", "exited", MarkCompleted(jobs[j], thread[j].results))

\* Lines 78-83.
FailedAcquire(j) == ThreadAcquire(j, "except", "locked_failed")

\* Line 82 left out: a failed job without its cause.
MarkFailedNoCause(job, e) ==
    DictSet(DictSet(job, "status", "failed"), "completed_at", time_time)

\* The except block left out: the exception ends the thread and nothing is
\* written.
MarkFailedNothing(job, e) == job

\* Line 82 with a fixed message in place of str(e).
MarkFailedGenericCause(job, e) ==
    DictSet(DictSet(DictSet(job, "status", "failed"),
                    "error", "Batch processing failed"),
            "completed_at", time_time)

\* Lines 81-83.
MarkFailed(job, e) ==
    DictSet(DictSet(DictSet(job, "status", "failed"),
                    "error", e),
            "completed_at", time_time)

FailedWrite(j) ==
    ThreadWrite(j, "locked_failed", "exited", MarkFailed(jobs[j], thread[j].exc))

\* ---------------------------------------------------------------------- Next
\* A step of client c: it sends a request, or its handler moves on.
ClientStep(c) ==
    \/ \E h \in Headers, b \in SampleBatches : SubmitRequest(c, h, b)
    \/ SubmitAcquire(c)
    \/ SubmitInsert(c)
    \/ SubmitStart(c)
    \/ \E h \in Headers, j \in JobIds : StatusRequest(c, h, j)
    \/ StatusAcquire(c)
    \/ StatusRead(c)
    \/ \E h \in Headers, j \in JobIds : ResultsRequest(c, h, j)
    \/ ResultsAcquire(c)
    \/ ResultsRead(c)

\* A step of the background thread of job j.
ThreadStep(j) ==
    \/ ProcessingAcquire(j)
    \/ ProcessingWrite(j)
    \/ Predict(j)
    \/ \E msg \in PredictorErrors : PredictRaise(j, msg)
    \/ CompletedAcquire(j)
    \/ CompletedWrite(j)
    \/ FailedAcquire(j)
    \/ FailedWrite(j)

Next ==
    \/ \E c \in Clients : ClientStep(c)
    \/ \E j \in JobIds : ThreadStep(j)

Spec == Init /\ [][Next]_vars

\* The submit route alone, on the request bodies at the edges of the
\* accepted sizes.
BoundaryNext ==
    \E c \in Clients :
        \/ \E h \in Headers, b \in BoundaryBatches : SubmitRequest(c, h, b)
        \/ SubmitAcquire(c)
        \/ SubmitInsert(c)
        \/ SubmitStart(c)

BoundarySpec == Init /\ [][BoundaryNext]_vars

\* ------------------------------------------------------------------ fairness
\* The steps of the thread of job j that need no lock: the write and release
\* that end a with block, and the predictor call, which returns or raises.
ThreadRun(j) ==
    \/ ProcessingWrite(j)
    \/ Predict(j)
    \/ \E msg \in PredictorErrors : PredictRaise(j, msg)
    \/ CompletedWrite(j)
    \/ FailedWrite(j)

\* The thread of job j enters a with block.
ThreadEnter(j) ==
    \/ ProcessingAcquire(j)
    \/ CompletedAcquire(j)
    \/ FailedAcquire(j)

\* The steps of a request handler that holds the lock or has left its with
\* block: it runs on to its return.
HandlerRun(c) ==
    \/ SubmitInsert(c)
    \/ SubmitStart(c)
    \/ StatusRead(c)
    \/ ResultsRead(c)

\* A scheduler that lets every running thread and handler take its next
\* step, and a lock that is not withheld for ever from a thread that keeps
\* asking for it.
Fairness ==
    /\ \A j \in JobIds : WF_vars(ThreadRun(j)) /\ SF_vars(ThreadEnter(j))
    /\ \A c \in Clients : WF_vars(HandlerRun(c))

\* The service under that scheduler, with the requests of one client at a
\* time.
FairNext ==
    \/ ClientStep(1)
    \/ \E j \in JobIds : ThreadStep(j)

FairSpec == Init /\ [][FairNext]_vars /\ Fairness

\* A request handler enters its with block.
HandlerEnter(c) ==
    \/ SubmitAcquire(c)
    \/ StatusAcquire(c)
    \/ ResultsAcquire(c)

\* A thread that holds the lock writes and leaves its with block.
ThreadRelease(j) ==
    \/ ProcessingWrite(j)
    \/ CompletedWrite(j)
    \/ FailedWrite(j)

\* A scheduler that promises the background threads nothing but the end of
\* a with block they are in: a thread may wait for the lock, or sit in the
\* predictor call, for ever.  Request handlers run on, and get the lock if
\* they keep asking for it.
HandlerFairness ==
    /\ \A c \in Clients : WF_vars(HandlerRun(c)) /\ SF_vars(HandlerEnter(c))
    /\ \A j \in JobIds : WF_vars(ThreadRelease(j))

StalledSpec == Init /\ [][FairNext]_vars /\ HandlerFairness

\* The scheduler of FairSpec with a lock that is not withheld for ever from
\* a request handler either.
ServingFairness ==
    /\ Fairness
    /\ \A c \in Clients : SF_vars(HandlerEnter(c))

ServingSpec == Init /\ [][FairNext]_vars /\ ServingFairness

\* The predictor call of the thread of job j comes to an end.
PredictorEnds(j) ==
    \/ Predict(j)
    \/ \E msg \in PredictorErrors : PredictRaise(j, msg)

\* The job whose prediction may take for ever: the first one submitted.
SlowJob == 1

\* The scheduler of ServingSpec, except that the predictor call of the slow
\* job need never return: its thread is promised the lock and the end of
\* its with blocks, the threads of the other jobs everything.
SlowPredictorFairness ==
    /\ \A c \in Clients : WF_vars(HandlerRun(c)) /\ SF_vars(HandlerEnter(c))
    /\ \A j \in JobIds : WF_vars(ThreadRelease(j)) /\ SF_vars(ThreadEnter(j))
    /\ \A j \in JobIds \ {SlowJob} : WF_vars(PredictorEnds(j))

SlowPredictorSpec == Init /\ [][FairNext]_vars /\ SlowPredictorFairness

\* The service in a process that may run out of threads: thread.start()
\* succeeds or raises.
StartFailureNext ==
    \/ FairNext
    \/ SubmitStartFails(1)

StartFailureSpec == Init /\ [][StartFailureNext]_vars

\* ------------------------------------------------------------ authentication
Usernames == {API_USERNAME, "guest"}
Passwords == {API_PASSWORD, "wrong"}

\* The Authorization headers client c may send: the ones made outside the
\* service and the one with the token of its last login.
HeadersOf(c) == AllHeaders \cup (IF token[c].jwt THEN {BearerOf(token[c])} ELSE {})

\* The headers tried on the paths that are no route and on the routes
\* that write or return job data.
ProbeHeaders == {NoHeader, GarbageBearer, ExpiredBearer, ValidBearer}

\* A step of client c that logs in, probes paths and routes with any header,
\* and submits and polls.
AuthStep(c) ==
    \/ \E u \in Usernames, p \in Passwords : LoginRequest(c, u, p)
    \/ LoginIssue(c)
    \/ \E h \in HeadersOf(c) : PredictRequest(c, h, InStrong)
    \/ PredictReturn(c)
    \/ \E h \in ProbeHeaders, path \in OtherPaths : OtherRequest(c, path, h)
    \/ \E h \in ProbeHeaders : SubmitRequest(c, h, <<InStrong, InAverage>>)
    \/ SubmitAcquire(c)
    \/ SubmitInsert(c)
    \/ SubmitStart(c)
    \/ \E h \in HeadersOf(c), j \in JobIds : StatusRequest(c, h, j)
    \/ StatusAcquire(c)
    \/ StatusRead(c)
    \/ \E h \in ProbeHeaders, j \in JobIds : ResultsRequest(c, h, j)
    \/ ResultsAcquire(c)
    \/ ResultsRead(c)

AuthNext ==
    \/ Tick
    \/ AuthStep(1)

\* One client against the authentication layer while time passes (the
\* background threads are left out: every job stays pending).
AuthSpec == Init /\ [][AuthNext]_vars

\* ------------------------------------------------------------ single prediction
\* The headers of the clients of /predict: none, or the one of a client
\* that has logged in.
PredictHeaders == {NoHeader, ValidBearer}

PredictNext ==
    \E c \in Clients :
        \/ \E h \in PredictHeaders, x \in PredictInputs : PredictRequest(c, h, x)
        \/ PredictReturn(c)

\* The single-prediction route alone, on inputs inside and outside the
\* field bounds.
PredictSpec == Init /\ [][PredictNext]_vars

\* ====================================================================
\* Properties
\* ====================================================================
Terminal == {"completed", "failed"}
Statuses == {"pending", "processing", "completed", "failed"}

\* The transitions of the status state machine.
AllowedTransitions ==
    { <<"pending", "processing">>,
      <<"processing", "completed">>,
      <<"processing", "failed">> }

\* later is old itself or reachable from it along AllowedTransitions.
NotEarlier(old, later) ==
    \/ later = old
    \/ <<old, later>> \in AllowedTransitions
    \/ old = "pending" /\ later \in Terminal

\* The status route answers client c in this step.
StatusAnswered(c) == handler[c].op = "status" /\ handler'[c].op = "idle"

\* C1: the stored status of a job changes only along pending -> processing,
\* processing -> completed, processing -> failed (never backward, never
\* from pending to a terminal state, never between completed and failed,
\* never out of a terminal state), a stored job is never removed, and a
\* status poll that follows another status poll of the same job by the
\* same client never returns an earlier status than the first one did.
C1_StatusMonotone ==
    [][ /\ \A j \in DOMAIN jobs :
              /\ j \in DOMAIN jobs'
              /\ \/ jobs'[j]["status"] = jobs[j]["status"]
                 \/ <<jobs[j]["status"], jobs'[j]["status"]>> \in AllowedTransitions
        /\ \A c \in Clients :
              StatusAnswered(c) /\ handler[c].prev.op = "status"
                  => /\ resp'[c].code = 200
                     /\ NotEarlier(handler[c].prev.status, resp'[c].status)
      ]_vars

\* A second status poll of a job is about to read completed after the
\* first poll of the same client returned processing.
C1_Witness ==
    \E c \in Clients :
        /\ handler[c].op = "status"
        /\ handler[c].pc = "locked"
        /\ handler[c].prev = [op |-> "status", status |-> "processing"]
        /\ handler[c].job_id \in DOMAIN jobs
        /\ jobs[handler[c].job_id]["status"] = "completed"

\* The stored results of a job (job.get("results", [])).
StoredResults(j) == DictGet(jobs[j], "results", <<>>)

\* C2: in every state, for every job in the store, the stored results are
\* non-empty exactly when the status is completed (a pending, processing or
\* failed job has none), and no response of the results route carries
\* status completed with an empty result list.
C2_ResultsIffCompleted ==
    /\ \A j \in DOMAIN jobs :
          (Len(StoredResults(j)) > 0) <=> (jobs[j]["status"] = "completed")
    /\ \A c \in Clients :
          resp[c].op = "results" /\ resp[c].status = "completed"
              => Len(resp[c].results) > 0

\* One job failed and one completed, and a client holds the results of the
\* completed one.
C2_Witness ==
    /\ \E j \in DOMAIN jobs : jobs[j]["status"] = "failed"
    /\ \E j \in DOMAIN jobs :
          /\ jobs[j]["status"] = "completed"
          /\ \E c \in Clients :
                resp[c].op = "results" /\ resp[c].code = 200 /\ resp[c].job_id = j

\* C3: in every state, for every job in the store, the job dict has an
\* error exactly when its status is failed.
C3_ErrorIffFailed ==
    \A j \in DOMAIN jobs :
        ("error" \in DOMAIN jobs[j]) <=> (jobs[j]["status"] = "failed")

\* A failed job with its cause beside a completed job.
C3_Witness ==
    /\ \E j \in DOMAIN jobs :
          jobs[j]["status"] = "failed" /\ DictGet(jobs[j], "error", "") = OutputValidationError
    /\ \E j \in DOMAIN jobs : jobs[j]["status"] = "completed"

\* results holds one prediction per input, result i being the prediction of
\* the fitted model for input i.
PredictionsOf(inputs, results) ==
    /\ Len(results) = Len(inputs)
    /\ \A i \in 1..Len(inputs) :
          /\ i \in DOMAIN results
          /\ results[i].chance_of_admit = LinearRegressionPredict(inputs[i])

\* C4: for every completed job the stored results are one prediction per
\* submitted input, in input order, and every 200 response of the results
\* route carries those predictions and a total equal to the number of
\* inputs submitted for the job.
C4_ResultsMatchInputs ==
    /\ \A j \in DOMAIN jobs :
          jobs[j]["status"] = "completed"
              => PredictionsOf(jobs[j]["inputs"], StoredResults(j))
    /\ \A c \in Clients :
          resp[c].op = "results" /\ resp[c].code = 200
              => /\ resp[c].job_id \in DOMAIN jobs
                 /\ resp[c].total = Len(jobs[resp[c].job_id]["inputs"])
                 /\ PredictionsOf(jobs[resp[c].job_id]["inputs"], resp[c].results)

\* A client holds the results of a completed job of two inputs with
\* different predictions.
C4_Witness ==
    \E c \in Clients :
        /\ resp[c].op = "results"
        /\ resp[c].code = 200
        /\ resp[c].total = 2
        /\ resp[c].results[1] # resp[c].results[2]

\* C5: under fair scheduling, with a predictor call that returns or raises,
\* every job in the store eventually has status completed or failed.
C5_EveryJobTerminates ==
    \A j \in JobIds :
        (j \in DOMAIN jobs) ~> (j \in DOMAIN jobs /\ jobs[j]["status"] \in Terminal)

\* Both jobs have reached a terminal state, one of each kind.
C5_Witness ==
    /\ DOMAIN jobs = JobIds
    /\ \A j \in JobIds : thread[j].pc = "exited" /\ jobs[j]["status"] \in Terminal
    /\ \E j \in JobIds : jobs[j]["status"] = "completed"
    /\ \E j \in JobIds : jobs[j]["status"] = "failed" /\ thread[j].exc \in PredictorErrors

\* The status route answers client c, whose previous response was the 200
\* of the submit that returned the polled job id.
StatusAfterSubmit(c) == StatusAnswered(c) /\ handler[c].prev.op = "submit"

NewJobKeys == {"status", "results", "created_at", "inputs"}

\* C7: the identifiers of the submits in flight differ from each other and
\* from every identifier in the store, so an insertion never overwrites a
\* record; every record in the store has all the keys of a new job; the
\* step that inserts a record inserts it whole (status pending, no results,
\* the submitted inputs, the creation time) and leaves every other record
\* as it was; and the identifier a submit returns was never returned by an
\* earlier submit.
C7_UniqueFullyInitialised ==
    /\ [](/\ \A c1, c2 \in Clients :
                c1 # c2 /\ handler[c1].op = "submit" /\ handler[c2].op = "submit"
                    => handler[c1].job_id # handler[c2].job_id
          /\ \A c \in Clients :
                handler[c].op = "submit" /\ handler[c].pc \in {"lock", "locked"}
                    => handler[c].job_id \notin DOMAIN jobs
          /\ \A j \in DOMAIN jobs : NewJobKeys \subseteq DOMAIN jobs[j])
    /\ [][ /\ \A c \in Clients :
                 handler[c].op = "submit" /\ handler[c].pc = "locked"
                       /\ handler'[c].pc = "spawn"
                    => /\ DOMAIN jobs' = DOMAIN jobs \cup {handler[c].job_id}
                       /\ \A k \in DOMAIN jobs : jobs'[k] = jobs[k]
                       /\ jobs'[handler[c].job_id] =
                             [status |-> "pending", results |-> <<>>,
                              created_at |-> time_time, inputs |-> handler[c].inputs]
           /\ \A c \in Clients :
                 handler[c].op = "submit" /\ handler'[c].op = "idle"
                    => /\ resp'[c].code = 200
                       /\ resp'[c].job_id = handler[c].job_id
                       /\ thread[handler[c].job_id].pc = "unstarted"
                       /\ \A d \in Clients :
                             resp[d].op = "submit" => resp[d].job_id # resp'[c].job_id
         ]_vars

\* Two submits are in flight at once with different identifiers: one has
\* inserted its record and the other holds the lock to insert its own.
C7_Witness ==
    \E c1, c2 \in Clients :
        /\ handler[c1].op = "submit" /\ handler[c1].pc = "spawn"
        /\ handler[c2].op = "submit" /\ handler[c2].pc = "locked"
        /\ handler[c1].job_id # handler[c2].job_id
        /\ DOMAIN jobs = {handler[c1].job_id}

\* The documented bounds of the input fields: every field present, a number,
\* gre_score 0-340, toefl_score 0-120, university_rating, sop and lor 1-5,
\* cgpa 0-10, research 0 or 1.
WellFormed(inp) ==
    /\ DOMAIN inp = FieldNames
    /\ \A f \in FieldNames : inp[f] \in Int
    /\ inp.gre_score >= 0 /\ inp.gre_score <= 340
    /\ inp.toefl_score >= 0 /\ inp.toefl_score <= 120
    /\ inp.university_rating >= 1 /\ inp.university_rating <= 5
    /\ inp.sop >= 1 /\ inp.sop <= 5
    /\ inp.lor >= 1 /\ inp.lor <= 5
    /\ inp.cgpa >= 0 /\ inp.cgpa <= 10
    /\ inp.research \in {0, 1}

\* A batch of 1 to 1000 well-formed inputs.
Acceptable(inputs) ==
    /\ 1 <= Len(inputs)
    /\ Len(inputs) <= 1000
    /\ \A i \in 1..Len(inputs) : WellFormed(inputs[i])

\* Client c's last request was a submit that the route took on: its handler
\* is running or has answered 200.
SubmitAccepted(c) ==
    sent[c].any /\ (handler[c].op = "submit" \/ (resp[c].op = "submit" /\ resp[c].code = 200))

\* Client c's last request was a submit answered with 400.
SubmitRejected(c) ==
    sent[c].any /\ handler[c].op = "idle" /\ resp[c].op = "submit" /\ resp[c].code = 400

\* C8: a submit is taken on only if its batch holds 1 to 1000 well-formed
\* inputs, and is answered 400 only if it does not; so an authenticated
\* submit of 0 or 1001 inputs is answered 400 and one of 1000 well-formed
\* inputs is accepted.
C8_AcceptedIffSizeInRange ==
    \A c \in Clients :
        /\ SubmitAccepted(c) => Acceptable(sent[c].inputs)
        /\ SubmitRejected(c) => ~Acceptable(sent[c].inputs)

\* One client has a batch of 1000 accepted and another has a batch of 1001
\* refused.
C8_Witness ==
    \E c1, c2 \in Clients :
        /\ Len(sent[c1].inputs) = 1000
        /\ resp[c1].op = "submit" /\ resp[c1].code = 200
        /\ Len(sent[c2].inputs) = 1001
        /\ SubmitRejected(c2)

\* Client c's submit is answered 400 in this step.
SubmitRejectedNow(c) ==
    /\ handler[c].op = "idle"
    /\ handler'[c].op = "idle"
    /\ sent'[c].any
    /\ resp'[c].op = "submit"
    /\ resp'[c].code = 400
    /\ (resp'[c] # resp[c] \/ sent'[c] # sent[c])

\* C9: the step that answers a submit with 400 leaves the job store, the
\* lock, the identifiers drawn and every background thread as they were
\* (no record is written and no thread is started); and every record in the
\* store holds a whole batch of 1 to 1000 well-formed inputs, so no record
\* is ever created for a part of a batch that holds a malformed or
\* out-of-bounds input.
C9_RejectedBatchNoEffect ==
    /\ [](\A j \in DOMAIN jobs :
            /\ "inputs" \in DOMAIN jobs[j]
            /\ Acceptable(jobs[j]["inputs"])
            /\ thread[j].pc # "unstarted" => thread[j].inputs = jobs[j]["inputs"])
    /\ [](\A j \in JobIds : thread[j].pc # "unstarted" => j \in DOMAIN jobs)
    /\ [][ \A c \in Clients :
              SubmitRejectedNow(c) => UNCHANGED <<jobs, jobs_lock, uuids, thread>>
         ]_vars

\* A batch whose first input is well-formed and whose second is out of
\* bounds has been answered 400 while the store holds the job of another
\* client.
C9_Witness ==
    \E c \in Clients :
        /\ SubmitRejected(c)
        /\ sent[c].inputs = <<InStrong, InBadGre>>
        /\ resp[c].error = "validation error for AdmissionInput"
        /\ DOMAIN jobs # {}

\* The results route answers client c in this step.
ResultsAnswered(c) == handler[c].op = "results" /\ handler'[c].op = "idle"

\* The exception handler of a thread that raised.
ExceptPath == {"except", "locked_failed", "exited"}

\* C10: a thread in which an exception was raised (by the predictor, or by
\* the conversion of an out-of-range prediction) goes through its except
\* block and nowhere else, and once it has exited its job is failed with
\* str(e) as the recorded cause; a recorded cause never changes and a
\* failed job stays failed; and every results query answered for a failed
\* job is a 500 that carries exactly the recorded cause.
C10_FailureRecordedAndReported ==
    /\ [](\A j \in JobIds :
            thread[j].raised
                => /\ thread[j].pc \in ExceptPath
                   /\ j \in DOMAIN jobs
                   /\ thread[j].pc = "exited"
                         => /\ jobs[j]["status"] = "failed"
                            /\ DictGet(jobs[j], "error", "Unknown error") = thread[j].exc)
    /\ [][ /\ \A j \in DOMAIN jobs :
                 jobs[j]["status"] = "failed"
                    => /\ j \in DOMAIN jobs'
                       /\ jobs'[j]["status"] = "failed"
                       /\ DictGet(jobs'[j], "error", "Unknown error")
                             = DictGet(jobs[j], "error", "Unknown error")
            /\ \A c \in Clients :
                 /\ ResultsAnswered(c)
                 /\ handler[c].job_id \in DOMAIN jobs
                 /\ jobs[handler[c].job_id]["status"] = "failed"
                 => /\ resp'[c].code = 500
                    /\ resp'[c].job_id = handler[c].job_id
                    /\ resp'[c].error = thread[handler[c].job_id].exc
         ]_vars

\* A client holds the 500 of a job whose predictor raised, carrying the
\* message of that exception, while another job has failed on an
\* out-of-range prediction.
C10_Witness ==
    \E c \in Clients :
        /\ resp[c].op = "results"
        /\ resp[c].code = 500
        /\ resp[c].error \in PredictorErrors
        /\ \E j \in DOMAIN jobs :
              /\ j # resp[c].job_id
              /\ jobs[j]["status"] = "failed"
              /\ DictGet(jobs[j], "error", "Unknown error") = OutputValidationError

\* The statuses of a job that is still being worked on.
Running == {"pending", "processing"}

\* C11: the results route, answering for a job whose stored status is
\* pending or processing, returns 202 with that status, no results and no
\* error; and every 202 a client holds carries pending or processing and no
\* results.
C11_RunningJobGets202 ==
    /\ [](\A c \in Clients :
            resp[c].op = "results" /\ resp[c].code = 202
                => /\ resp[c].status \in Running
                   /\ resp[c].results = <<>>
                   /\ resp[c].error = "")
    /\ [][ \A c \in Clients :
              /\ ResultsAnswered(c)
              /\ handler[c].job_id \in DOMAIN jobs
              /\ jobs[handler[c].job_id]["status"] \in Running
              => /\ resp'[c].code = 202
                 /\ resp'[c].job_id = handler[c].job_id
                 /\ resp'[c].status = jobs[handler[c].job_id]["status"]
                 /\ resp'[c].results = <<>>
                 /\ resp'[c].total = 0
                 /\ resp'[c].error = ""
         ]_vars

\* One client holds the 202 of a pending job and another the 202 of a
\* processing job.
C11_Witness ==
    \E c1, c2 \in Clients :
        /\ resp[c1].op = "results" /\ resp[c1].code = 202 /\ resp[c1].status = "pending"
        /\ resp[c2].op = "results" /\ resp[c2].code = 202 /\ resp[c2].status = "processing"

\* C12: a record is never removed from the store; every identifier a
\* submit has returned, and no identifier that no submit has drawn, has a
\* record; and the status and results routes answer 404 exactly when the
\* identifier has no record, and otherwise 200, 202 or 500, whatever the
\* status of the job.
C12_NotFoundIffNeverCreated ==
    /\ [](/\ DOMAIN jobs \subseteq uuids
          /\ \A c \in Clients :
                resp[c].op = "submit" /\ resp[c].code = 200
                    => resp[c].job_id \in DOMAIN jobs)
    /\ [][ /\ DOMAIN jobs \subseteq DOMAIN jobs'
            /\ \A c \in Clients :
                  StatusAnswered(c) \/ ResultsAnswered(c)
                      => /\ (resp'[c].code = 404)
                               <=> (handler[c].job_id \notin DOMAIN jobs)
                         /\ resp'[c].code \in {404, 200, 202, 500}
                         /\ StatusAnswered(c) /\ handler[c].job_id \in DOMAIN jobs
                               => resp'[c].code = 200
         ]_vars

\* One client holds the 404 of an identifier without a record while the
\* other holds the 200 of a status query for a job that has failed.
C12_Witness ==
    \E c1, c2 \in Clients :
        /\ resp[c1].code = 404
        /\ resp[c1].op \in {"status", "results"}
        /\ resp[c2].op = "status" /\ resp[c2].code = 200 /\ resp[c2].status = "failed"

\* The positions of a thread between its first write and its last.
AfterProcessingWrite == {"predict", "store", "locked_completed", "except", "locked_failed"}

\* C19: once a write of the thread has completed the store holds the new
\* status together with its payload (processing after the first write;
\* after the last, completed with the results or failed with the cause),
\* no record ever has status completed without results or failed without a
\* cause, and every status or results read, which takes the lock after the
\* write released it, returns the status in the store at that moment with
\* the payload that belongs to it.
C19_ReadsObserveCompletedWrites ==
    /\ [](\A j \in DOMAIN jobs :
            /\ thread[j].pc \in AfterProcessingWrite => jobs[j]["status"] = "processing"
            /\ thread[j].pc = "exited" /\ ~thread[j].raised
                  => /\ jobs[j]["status"] = "completed"
                     /\ StoredResults(j) = thread[j].results
            /\ thread[j].pc = "exited" /\ thread[j].raised
                  => /\ jobs[j]["status"] = "failed"
                     /\ DictGet(jobs[j], "error", "Unknown error") = thread[j].exc
            /\ jobs[j]["status"] = "completed" => Len(StoredResults(j)) > 0
            /\ jobs[j]["status"] = "failed" => "error" \in DOMAIN jobs[j])
    /\ [][ \A c \in Clients :
              /\ StatusAnswered(c) \/ ResultsAnswered(c)
              /\ handler[c].job_id \in DOMAIN jobs
              => LET j == handler[c].job_id
                 IN  /\ resp'[c].status = jobs[j]["status"]
                     /\ thread[j].pc = "exited" => resp'[c].status \in Terminal
                     /\ ResultsAnswered(c) /\ jobs[j]["status"] = "completed"
                           => /\ resp'[c].results = ModelDump(thread[j].results)
                              /\ Len(resp'[c].results) = Len(jobs[j]["inputs"])
                     /\ ResultsAnswered(c) /\ jobs[j]["status"] = "failed"
                           => resp'[c].error = thread[j].exc
         ]_vars

\* A results read holds the lock on a job whose thread has stored its
\* results and exited, while the same client's previous request is over
\* and the other job is still processing.
C19_Witness ==
    \E c \in Clients :
        /\ handler[c].op = "results"
        /\ handler[c].pc = "locked"
        /\ handler[c].job_id \in DOMAIN jobs
        /\ thread[handler[c].job_id].pc = "exited"
        /\ ~thread[handler[c].job_id].raised
        /\ \E k \in DOMAIN jobs : jobs[k]["status"] = "processing"

\* Client c's submit returns in this step.
SubmitReturns(c) == handler[c].op = "submit" /\ handler'[c].op = "idle"

\* C20: under a scheduler that lets a background thread stall for ever
\* (in the predictor call or anywhere outside a with block), every submit
\* that was taken on returns; and the step in which it returns is the one
\* that starts the thread, which has made no step by then: the record is
\* still pending, the thread's first step is still ahead, and the response
\* carries the job id and status pending.
C20_SubmitReturnsWithoutProcessor ==
    /\ \A c \in Clients :
          (handler[c].op = "submit")
              ~> (handler[c].op = "idle" /\ resp[c].op = "submit" /\ resp[c].code = 200)
    /\ [][ \A c \in Clients :
              SubmitReturns(c)
                  => /\ thread[handler[c].job_id].pc = "unstarted"
                     /\ thread'[handler[c].job_id].pc = "start"
                     /\ jobs'[handler[c].job_id]["status"] = "pending"
                     /\ resp'[c].code = 200
                     /\ resp'[c].job_id = handler[c].job_id
                     /\ resp'[c].status = "pending"
         ]_vars

\* A submit has returned while the thread of its job has not taken its
\* first step, and the thread of the earlier job sits in the predictor call.
C20_Witness ==
    \E c \in Clients :
        /\ resp[c].op = "submit"
        /\ resp[c].code = 200
        /\ handler[c].op = "idle"
        /\ thread[resp[c].job_id].pc = "start"
        /\ \E k \in JobIds : thread[k].pc = "predict"

\* ------------------------------------------------------------ authentication
\* Client c has been answered and no request of it is in flight.
Answered(c) == handler[c].op = "idle" /\ passage[c].path # <<>>

\* The exempt prefixes as documented: login, health, documentation (the
\* pages and the schema), metrics, readiness, liveness.
ExemptPrefixes ==
    { <<"/", "l", "o", "g", "i", "n">>,
      <<"/", "h", "e", "a", "l", "t", "h", "z">>,
      <<"/", "d", "o", "c", "s">>,
      <<"/", "o", "p", "e", "n", "a", "p", "i", ".", "j", "s", "o", "n">>,
      <<"/", "m", "e", "t", "r", "i", "c", "s">>,
      <<"/", "r", "e", "a", "d", "y", "z">>,
      <<"/", "l", "i", "v", "e", "z">> }

Exempt(path) ==
    \E p \in ExemptPrefixes : Len(p) <= Len(path) /\ \A i \in 1..Len(p) : path[i] = p[i]

\* The header value begins with "Bearer ": the word Bearer, a space, and
\* whatever follows.
BearerForm(h) == h.present /\ Len(h.words) >= 2 /\ h.words[1].text = "Bearer"

\* The header is Bearer and one token signed with the service's secret.
SignedBearer(h) ==
    /\ h.present
    /\ Len(h.words) = 2
    /\ h.words[1].text = "Bearer"
    /\ h.words[2].jwt
    /\ h.words[2].key = JWT_SECRET

\* The request carried a correctly signed token that had not expired when
\* the request was made.
Authentic(h, now) == SignedBearer(h) /\ now < h.words[2].claims.exp

\* C13 as claimed, for a store without any job, where every identifier is
\* unknown: every answer of the status and results routes is 404.
C13_UnknownIdAlways404 ==
    \A c \in Clients :
        Answered(c) /\ jobs = <<>> /\ resp[c].op \in {"status", "results"}
            => resp[c].code = 404

\* C13 as amended: the status and results routes answer 401, whatever the
\* identifier, exactly when the request carries no correctly signed
\* unexpired token; and a query for an identifier without a record that is
\* answered by the route is answered 404 and was authenticated.
C13_UnknownIdNeedsAuth ==
    /\ [](\A c \in Clients :
            Answered(c) /\ resp[c].op \in {"status", "results"}
                => /\ (resp[c].code = 401)
                         <=> ~Authentic(passage[c].header, passage[c].now)
                   /\ resp[c].code = 404
                         => Authentic(passage[c].header, passage[c].now))
    /\ [][ \A c \in Clients :
              /\ StatusAnswered(c) \/ ResultsAnswered(c)
              /\ handler[c].job_id \notin DOMAIN jobs
              => /\ resp'[c].code = 404
                 /\ Authentic(passage[c].header, passage[c].now)
         ]_vars

\* A status query with an expired token has been answered 401 while the
\* store holds no job at all.
C13_Witness ==
    \E c \in Clients :
        /\ Answered(c)
        /\ jobs = <<>>
        /\ resp[c].op = "status"
        /\ resp[c].code = 401
        /\ passage[c].header = ExpiredBearer

\* C14: a request to a path without an exempt prefix whose header is
\* absent, empty or does not begin with "Bearer " is answered 401 "Missing
\* or invalid token" by the middleware, verify_token is not called for it
\* and no handler runs for it.
C14_BadHeaderDeniedUnverified ==
    \A c \in Clients :
        passage[c].path # <<>> /\ ~Exempt(passage[c].path) /\ ~BearerForm(passage[c].header)
            => /\ ~passage[c].verified
               /\ passage[c].outcome = "Missing or invalid token"
               /\ handler[c].op = "idle"
               /\ resp[c].code = 401
               /\ resp[c].error = "Missing or invalid token"
               /\ resp[c].results = <<>>

\* A request to /predict with a lower-case bearer scheme around a valid
\* token has been turned away.
C14_Witness ==
    \E c \in Clients :
        /\ passage[c].path = PATH_PREDICT
        /\ passage[c].header = LowerCaseBearer
        /\ resp[c].code = 401

\* C15: on a path without an exempt prefix, a request whose header is
\* Bearer and one token signed with the service's secret passes the
\* middleware exactly when the time of the request is before the token's
\* exp (a token is expired from the instant exp on); an expired one is
\* answered 401 "Token expired", an unexpired one is not answered 401,
\* whatever its subject and whether login issued it or not.
C15_SignedTokenAcceptedUntilExpiry ==
    \A c \in Clients :
        passage[c].path # <<>> /\ ~Exempt(passage[c].path) /\ SignedBearer(passage[c].header)
            => LET exp == passage[c].header.words[2].claims.exp
               IN  /\ (passage[c].outcome = "call_next") <=> (passage[c].now < exp)
                   /\ passage[c].verified
                   /\ passage[c].now >= exp
                         => /\ Answered(c)
                            /\ resp[c].code = 401
                            /\ resp[c].error = "Token expired"
                   /\ passage[c].now < exp /\ Answered(c) => resp[c].code # 401

\* The token of the client's last login, issued a second after the start,
\* has been accepted at the instant a token made at the start expires.
C15_Witness ==
    \E c \in Clients :
        /\ token[c].jwt
        /\ passage[c].header = BearerOf(token[c])
        /\ passage[c].path = PATH_PREDICT
        /\ passage[c].now = TTL
        /\ resp[c].code = 200

\* C16: the middleware hands a request on without calling verify_token
\* exactly when its path begins with an exempt prefix, whatever header it
\* carries; for every other path the header is examined, and the token is
\* verified if the header begins with "Bearer ".
C16_ExemptIffPrefix ==
    \A c \in Clients :
        passage[c].path # <<>>
            => /\ (passage[c].outcome = "call_next" /\ ~passage[c].verified)
                     <=> Exempt(passage[c].path)
               /\ ~Exempt(passage[c].path)
                     => /\ passage[c].verified <=> BearerForm(passage[c].header)
                        /\ passage[c].outcome = "call_next"
                              => Authentic(passage[c].header, passage[c].now)

\* A request to /logins, which is no route but begins with /login, has
\* been handed on with an expired token.
C16_Witness ==
    \E c \in Clients :
        /\ passage[c].path = <<"/", "l", "o", "g", "i", "n", "s">>
        /\ passage[c].header = ExpiredBearer
        /\ passage[c].outcome = "call_next"
        /\ resp[c].op = "call_next"

\* Client c's login has been answered.
LoginAnswered(c) == handler[c].op = "idle" /\ resp[c].op = "login"

\* C17: login answers 200 with a token exactly when the name and the
\* password sent both equal the configured ones; otherwise it answers 401
\* "Invalid credentials" and the client has no token; and a request without
\* an Authorization header to a path that is not exempt is answered 401.
C17_LoginIffCredentials ==
    \A c \in Clients :
        /\ LoginAnswered(c)
              => /\ (resp[c].code = 200)
                       <=> (sent[c].inputs = <<API_USERNAME, API_PASSWORD>>)
                 /\ resp[c].code = 200
                       => /\ token[c].jwt
                          /\ token[c].key = JWT_SECRET
                          /\ token[c].claims.sub = sent[c].inputs[1]
                 /\ resp[c].code # 200
                       => /\ resp[c].code = 401
                          /\ resp[c].error = "Invalid credentials"
                          /\ token[c] = NoToken
        /\ handler[c].op = "login" => sent[c].inputs = <<API_USERNAME, API_PASSWORD>>
        /\ passage[c].path # <<>> /\ ~Exempt(passage[c].path) /\ ~passage[c].header.present
              => Answered(c) /\ resp[c].code = 401

\* A login with the right name and a wrong password has been answered 401,
\* some time after the start.
C17_Witness ==
    \E c \in Clients :
        /\ LoginAnswered(c)
        /\ sent[c].inputs = <<API_USERNAME, "wrong">>
        /\ resp[c].code = 401
        /\ token[c] = NoToken
        /\ clock > 0

\* C18 as claimed: every token login has issued carries the name sent as
\* its subject and an expiry equal to its issued-at time plus the lifetime.
C18_ExpiryIsIssuedAtPlusTTL ==
    \A c \in Clients :
        token[c].jwt
            => /\ token[c].claims.sub = API_USERNAME
               /\ token[c].claims.exp = token[c].claims.iat + 60 * 30

\* Client c's /predict request has been answered by the route or by the
\* framework in front of it (the middleware let it pass).
PredictAnswered(c) ==
    /\ handler[c].op = "idle"
    /\ resp[c].op = "predict"
    /\ passage[c].outcome = "call_next"

\* C21 as claimed: a /predict request with a field outside its bound (or
\* lacking) is answered 400 and never reaches the predictor, exactly as a
\* batch holding that one input is refused by the submit route.
C21_PredictEnforcesBounds ==
    \A c \in Clients :
        /\ handler[c].op = "predict" => WellFormed(handler[c].inputs[1])
        /\ PredictAnswered(c)
              => ((resp[c].code = 400) <=> (ValidateBatch(sent[c].inputs) # "ok"))

\* Every prediction of a list of outputs lies in [0,1].
WithinUnitInterval(results) ==
    \A i \in 1..Len(results) : AdmissionOutputOk(results[i].chance_of_admit)

\* The batch half of C22: the stored results of every job, and the results
\* of every 200 of the results route, lie in [0,1].
BatchResultsWithinUnitInterval ==
    /\ \A j \in DOMAIN jobs : WithinUnitInterval(StoredResults(j))
    /\ \A c \in Clients : resp[c].op = "results" => WithinUnitInterval(resp[c].results)

\* C22 as claimed: every prediction returned to a client, by /predict or
\* in the results of a completed job, lies in [0,1].
C22_ReturnedPredictionsWithinUnitInterval ==
    /\ BatchResultsWithinUnitInterval
    /\ \A c \in Clients :
          resp[c].op = "predict" /\ resp[c].code = 200
              => WithinUnitInterval(resp[c].results)

\* The thread of job j takes a step.
ThreadSteps(j) == thread[j].pc # "unstarted" /\ thread'[j] # thread[j]

\* C23: a step of the thread of job A, the writes of its except block
\* included, leaves the set of records and the record of every other job
\* as they were; and under fair scheduling, once the thread of A has
\* raised, every other job in the store still reaches completed or failed
\* and every request in flight (submit, status, results) is answered.
C23_JobsIsolated ==
    /\ [][ \A a \in JobIds :
              ThreadSteps(a)
                  => /\ DOMAIN jobs' = DOMAIN jobs
                     /\ \A b \in DOMAIN jobs \ {a} : jobs'[b] = jobs[b]
                     /\ \A c \in Clients : handler'[c] = handler[c] /\ resp'[c] = resp[c]
         ]_vars
    /\ \A a, b \in JobIds :
          (a # b /\ thread[a].raised /\ b \in DOMAIN jobs)
              ~> (b \in DOMAIN jobs /\ jobs[b]["status"] \in Terminal)
    /\ \A c \in Clients :
          ((\E a \in JobIds : thread[a].raised) /\ handler[c].op # "idle")
              ~> (handler[c].op = "idle" /\ resp[c].code \in {200, 202, 404, 500})

\* The thread of one job has failed and exited, the other job is about to
\* store its results, and a request is waiting for the lock.
C23_Witness ==
    \E a, b \in DOMAIN jobs :
        /\ a # b
        /\ thread[a].raised
        /\ thread[a].pc = "exited"
        /\ jobs[a]["status"] = "failed"
        /\ thread[b].pc = "locked_completed"
        /\ \E c \in Clients : handler[c].pc = "lock"

\* The submit that inserted job j is between the insertion and
\* thread.start().
AboutToStart(j) ==
    \E c \in Clients :
        handler[c].op = "submit" /\ handler[c].pc = "spawn" /\ handler[c].job_id = j

\* C24 as claimed: every job in the store has one thread started for it, or
\* is about to get it from the submit that has just inserted it (never
\* zero); and a submit that is about to start a thread finds none started
\* for its job, no other submit holding the same identifier (never two).
C24_ExactlyOneProcessor ==
    /\ \A j \in DOMAIN jobs : thread[j].pc # "unstarted" \/ AboutToStart(j)
    /\ \A j \in JobIds : AboutToStart(j) => thread[j].pc = "unstarted"
    /\ \A c1, c2 \in Clients :
          c1 # c2 /\ handler[c1].op = "submit" /\ handler[c2].op = "submit"
              => handler[c1].job_id # handler[c2].job_id

\* The positions of a thread inside a with jobs_lock block.
InsideWith == {"locked_processing", "locked_completed", "locked_failed"}

\* C25: a thread owns the lock only inside one of its three with blocks,
\* never while its predictor call is running; and when the prediction of
\* one job never ends, every request in flight (submit, status, results,
\* for that job or another) still gets the lock and is answered, and the
\* thread of every other job in the store still takes the lock for each of
\* its writes and reaches completed or failed.
C25_LockFreeDuringPrediction ==
    /\ [](\A j \in JobIds :
            /\ (jobs_lock = ThreadOf(j)) <=> (thread[j].pc \in InsideWith)
            /\ thread[j].pc = "predict" => jobs_lock # ThreadOf(j))
    /\ \A c \in Clients :
          (handler[c].op # "idle")
              ~> (handler[c].op = "idle" /\ resp[c].code \in {200, 202, 404, 500})
    /\ \A j \in JobIds \ {SlowJob} :
          (j \in DOMAIN jobs) ~> (j \in DOMAIN jobs /\ jobs[j]["status"] \in Terminal)

\* While the first job sits in its predictor call, the second job has been
\* submitted, processed and completed, and a client holds the 202 of a
\* results query for the first.
C25_Witness ==
    /\ thread[SlowJob].pc = "predict"
    /\ \E j \in DOMAIN jobs \ {SlowJob} :
          thread[j].pc = "exited" /\ jobs[j]["status"] = "completed"
    /\ \E c \in Clients :
          /\ resp[c].op = "results"
          /\ resp[c].code = 202
          /\ resp[c].job_id = SlowJob
          /\ resp[c].status = "processing"

\* C26: the stored status of every job is one of pending, processing,
\* completed, failed; so no results query is answered from the last branch
\* of the results route (500 "Unknown status"), and every status a client
\* has been given is one of the four.
C26_StatusAlwaysKnown ==
    /\ \A j \in DOMAIN jobs :
          /\ "status" \in DOMAIN jobs[j]
          /\ jobs[j]["status"] \in Statuses
          /\ ResultsResponse(j).error # "Unknown status"
    /\ \A c \in Clients :
          /\ resp[c].error # "Unknown status"
          /\ resp[c].op \in {"status", "results"} /\ resp[c].code # 404
                => resp[c].status \in Statuses

\* One client holds the 500 of a failed job and the other the 200 of a
\* status query that found a job processing.
C26_Witness ==
    \E c1, c2 \in Clients :
        /\ resp[c1].op = "results" /\ resp[c1].code = 500 /\ resp[c1].status = "failed"
        /\ resp[c2].op = "status" /\ resp[c2].code = 200 /\ resp[c2].status = "processing"

\* The handler of client c, or the thread of job j, waits for the lock.
HandlerWaits(c) == handler[c].pc = "lock"
ThreadWaits(j) == thread[j].pc \in {"start", "store", "except"}

\* C27: the lock is owned only by a handler or a thread that is inside a
\* with block, whose next step ends the block; a handler that has answered
\* (404 and 500 included) and a thread that has exited (through its except
\* block or not) do not own it; the step that answers a status or results
\* query leaves the lock free; and under fair scheduling a taken lock is
\* always released again, every handler that waits for it is answered and
\* every thread that waits for it gets it.
C27_LockAlwaysReleased ==
    /\ [](/\ jobs_lock \in {Free} \cup {HandlerOf(c) : c \in Clients}
                               \cup {ThreadOf(j) : j \in JobIds}
          /\ \A c \in Clients :
                (jobs_lock = HandlerOf(c)) <=> (handler[c].pc = "locked")
          /\ \A j \in JobIds :
                (jobs_lock = ThreadOf(j)) <=> (thread[j].pc \in InsideWith))
    /\ [][ \A c \in Clients :
              StatusAnswered(c) \/ ResultsAnswered(c)
                  => jobs_lock = HandlerOf(c) /\ jobs_lock' = Free
         ]_vars
    /\ (jobs_lock # Free) ~> (jobs_lock = Free)
    /\ \A c \in Clients : HandlerWaits(c) ~> (handler[c].op = "idle")
    /\ \A j \in JobIds : ThreadWaits(j) ~> (thread[j].pc = "exited")

\* A results query for an identifier without a record owns the lock and is
\* about to raise 404 inside its with block, while a thread whose predictor
\* raised waits for the lock at its except block.
C27_Witness ==
    \E c \in Clients, j \in JobIds :
        /\ handler[c].op = "results"
        /\ handler[c].pc = "locked"
        /\ handler[c].job_id \notin DOMAIN jobs
        /\ jobs_lock = HandlerOf(c)
        /\ thread[j].pc = "except"

\* The routes behind the authentication layer.
ProtectedPaths == {PATH_PREDICT, PATH_SUBMIT, PATH_STATUS, PATH_RESULTS}

\* Client c sends a request in this step.
Requests(c) ==
    /\ handler[c].op = "idle"
    /\ <<handler[c], resp[c], passage[c], sent[c], token[c]>>'
           # <<handler[c], resp[c], passage[c], sent[c], token[c]>>

\* A response that tells nothing about any job: no identifier, no status,
\* no results.
DisclosesNothing(response) ==
    /\ response.job_id = 0
    /\ response.status = ""
    /\ response.results = <<>>
    /\ response.total = 0

\* C28: a request to /predict, /batch/submit, /batch/status/{id} or
\* /batch/results/{id} that does not carry a correctly signed, unexpired
\* token (no header, a malformed one, an invalid or expired token) is
\* answered 401 in the step that receives it, and that step leaves the job
\* store, the lock, the identifiers drawn and every thread as they were,
\* starts no handler (so neither the predictor nor a route runs for it), and
\* its response carries no job identifier, status or result.
C28_FailedAuthNoEffect ==
    /\ [](\A c \in Clients :
            passage[c].path \in ProtectedPaths
                /\ ~Authentic(passage[c].header, passage[c].now)
                => /\ handler[c].op = "idle"
                   /\ resp[c].code = 401
                   /\ DisclosesNothing(resp[c]))
    /\ [][ \A c \in Clients :
              /\ Requests(c)
              /\ passage'[c].path \in ProtectedPaths
              /\ ~Authentic(passage'[c].header, passage'[c].now)
              => /\ UNCHANGED <<jobs, jobs_lock, uuids, thread>>
                 /\ handler'[c] = Idle
                 /\ resp'[c].code = 401
                 /\ DisclosesNothing(resp'[c])
         ]_vars

\* A results query with a token that is no token has been answered 401
\* while the store holds a job, and the request before it was another.
C28_Witness ==
    \E c \in Clients :
        /\ DOMAIN jobs # {}
        /\ passage[c].path = PATH_RESULTS
        /\ passage[c].header = GarbageBearer
        /\ resp[c].op = "results"
        /\ resp[c].code = 401
        /\ handler[c].op = "idle"

\* A token comes into being in this step: client c is handed one it did
\* not hold before.
TokenIssued(c) == token'[c].jwt /\ token'[c] # token[c]

\* C29: create_token runs only for a login whose name and password were the
\* configured ones; the step that issues a token ends such a login and
\* signs, with the service's secret, a payload whose subject is the
\* configured username; so every token a client holds from the service has
\* that subject, whatever logins came before.
C29_TokensOnlyForConfiguredUser ==
    /\ [](\A c \in Clients :
            /\ handler[c].op = "login"
                  => /\ sent[c].inputs = <<API_USERNAME, API_PASSWORD>>
                     /\ handler[c].sub = API_USERNAME
            /\ token[c].jwt
                  => /\ token[c].claims.sub = API_USERNAME
                     /\ token[c].key = JWT_SECRET)
    /\ [][ \A c \in Clients :
              TokenIssued(c)
                  => /\ handler[c].op = "login"
                     /\ sent[c].inputs = <<API_USERNAME, API_PASSWORD>>
                     /\ token'[c].claims.sub = API_USERNAME
                     /\ resp'[c].op = "login"
                     /\ resp'[c].code = 200
         ]_vars

\* A token has been issued at the instant the tokens made at the start
\* expire, by a login that followed other requests.
C29_Witness ==
    \E c \in Clients :
        /\ token[c].jwt
        /\ token[c].claims.iat = TTL
        /\ token[c].claims.sub = API_USERNAME
        /\ passage[c].path = PATH_LOGIN
        /\ DOMAIN jobs # {}

====
